---------------------------- MODULE Spec2Model ----------------------------
(***************************************************************************)
(* A model of the job pipeline and orchestration of devops_hunter.py:      *)
(* the relevance filter _devops_match, the two job adapters                *)
(* (_jobs_greenhouse_board, _jobs_lever_search), the merge steps of jobs() *)
(* (concatenate, deduplicate, recency filter, sort), and run()/main() with *)
(* their output files and the KeyboardInterrupt path.                      *)
(*                                                                         *)
(* Python strings are modelled as sequences of one-character strings, so   *)
(* that lower(), substring tests, split() and the lexical order of sort    *)
(* keys are computed rather than assumed.  Instants are integers: a        *)
(* datetime is  ordinal * TicksPerDay + tick-of-day,  where ordinal is the *)
(* proleptic Gregorian day number (date.toordinal()).                      *)
(***************************************************************************)
EXTENDS Integers, Sequences, FiniteSets, TLC

VARIABLES
    pc,          \* position of main()/run(): which statement runs next
    only,        \* run(only=...): "all" stands for None
    now,         \* the wall clock, read by datetime.utcnow()
    files,       \* the output directory: file name -> "absent"|"partial"|"complete"
    content,     \* file name -> the data handed to save_json for it
    out,         \* run()'s dict `out`: the keys set so far
    fetch,       \* jobs(): per task of the gather, "pending"|"hung"|"done"
    resp,        \* jobs(): per task, which answer the remote end gave (0: none yet)
    results,     \* jobs(): per task, the value gather() returns for it
    merge_in,    \* the adapter outputs the merge steps were applied to
    merge_at,    \* the instant (utcnow) of that application
    fresh        \* jobs(): the list `fresh` after the sort

vars == <<pc, only, now, files, content, out, fetch, resp, results,
          merge_in, merge_at, fresh>>

---------------------------------------------------------------------------
(* Bounds of the model.                                                    *)

\* instants modelled per calendar day (tick 0 of a day is midnight exactly)
TicksPerDay == 2

\* the day the modelled run starts on, as a date ordinal (2025-02-28)
StartDay == 739310

\* how many ticks the clock may advance during a run
MaxTicks == 1

---------------------------------------------------------------------------
(* Python strings.                                                         *)

\* the printable ASCII characters in code point order (the backquote, which
\* no string of the model holds, left out)
Ascii ==
    <<" ", "!", "\"", "#", "$", "%", "&", "'", "(", ")", "*", "+", ",", "-", ".", "/", "0", "1", "2", "3", "4", "5", "6", "7", "8", "9", ":", ";", "<", "=", ">", "?", "@", "A", "B", "C", "D", "E", "F", "G", "H", "I", "J", "K", "L", "M", "N", "O", "P", "Q", "R", "S", "T", "U", "V", "W", "X", "Y", "Z", "[", "\\", "]", "^", "_", "a", "b", "c", "d", "e", "f", "g", "h", "i", "j", "k", "l", "m", "n", "o", "p", "q", "r", "s", "t", "u", "v", "w", "x", "y", "z", "{", "|", "}", "~">>

UpperAlpha == <<"A", "B", "C", "D", "E", "F", "G", "H", "I", "J", "K", "L", "M", "N", "O", "P", "Q", "R", "S", "T", "U", "V", "W", "X", "Y", "Z">>

LowerAlpha == <<"a", "b", "c", "d", "e", "f", "g", "h", "i", "j", "k", "l", "m", "n", "o", "p", "q", "r", "s", "t", "u", "v", "w", "x", "y", "z">>

\* the rank of c among the characters of Ascii, which are listed by code
\* point: Ord(a) < Ord(b) exactly when ord(a) < ord(b)
Ord(c) == CHOOSE i \in 1..Len(Ascii) : Ascii[i] = c

\* str.lower() on one character, then on a string
LowerChar(c) ==
    IF \E i \in 1..26 : UpperAlpha[i] = c
    THEN LowerAlpha[CHOOSE i \in 1..26 : UpperAlpha[i] = c]
    ELSE c

Lower(s) == [i \in 1..Len(s) |-> LowerChar(s[i])]

\* k in t  (substring test)
IsSubstr(k, t) ==
    \E i \in 0..(Len(t) - Len(k)) : SubSeq(t, i + 1, i + Len(k)) = k

\* t.find(k): the 1-based index of the first occurrence of k in t (0 if none)
Find(k, t) ==
    IF IsSubstr(k, t)
    THEN 1 + (CHOOSE i \in 0..(Len(t) - Len(k)) :
                /\ SubSeq(t, i + 1, i + Len(k)) = k
                /\ \A h \in 0..(i - 1) : SubSeq(t, h + 1, h + Len(k)) # k)
    ELSE 0

\* a < b for Python strings: lexical order by code point
RECURSIVE StrLess(_, _)
StrLess(a, b) ==
    IF b = <<>> THEN FALSE
    ELSE IF a = <<>> THEN TRUE
    ELSE IF a[1] # b[1] THEN Ord(a[1]) < Ord(b[1])
    ELSE StrLess(Tail(a), Tail(b))

\* str.strip() as get_text(strip=True) applies it to an element's one text node
RECURSIVE LStrip(_)
LStrip(s) == IF s # <<>> /\ s[1] = " " THEN LStrip(Tail(s)) ELSE s

RECURSIVE RStrip(_)
RStrip(s) ==
    IF s # <<>> /\ s[Len(s)] = " " THEN RStrip(SubSeq(s, 1, Len(s) - 1)) ELSE s

Strip(s) == RStrip(LStrip(s))

---------------------------------------------------------------------------
(* Calendar dates: strftime("%Y-%m-%d") and strptime(s, "%Y-%m-%d").       *)

Digits == <<"0", "1", "2", "3", "4", "5", "6", "7", "8", "9">>

IsDigit(c) == \E i \in 1..10 : Digits[i] = c

DigitVal(c) == (CHOOSE i \in 1..10 : Digits[i] = c) - 1

IsLeap(y) == (y % 4 = 0) /\ ((y % 100 # 0) \/ (y % 400 = 0))

DaysInMonth(y, m) ==
    IF m = 2 THEN (IF IsLeap(y) THEN 29 ELSE 28)
    ELSE IF m \in {4, 6, 9, 11} THEN 30 ELSE 31

DaysBeforeYear(y) ==
    (y - 1) * 365 + ((y - 1) \div 4) - ((y - 1) \div 100) + ((y - 1) \div 400)

RECURSIVE DaysBeforeMonth(_, _)
DaysBeforeMonth(y, m) ==
    IF m = 1 THEN 0 ELSE DaysBeforeMonth(y, m - 1) + DaysInMonth(y, m - 1)

\* date(y, m, d).toordinal()
ToOrdinal(y, m, d) == DaysBeforeYear(y) + DaysBeforeMonth(y, m) + d

\* date.fromordinal(n), for the years a run of the model can see
YearOf(n) == CHOOSE y \in 1990..2040 : DaysBeforeYear(y) < n /\ n <= DaysBeforeYear(y + 1)

MonthOf(n) ==
    LET y == YearOf(n)
        r == n - DaysBeforeYear(y)
    IN  CHOOSE m \in 1..12 : DaysBeforeMonth(y, m) < r /\ r <= DaysBeforeMonth(y, m) + DaysInMonth(y, m)

DayOf(n) == n - DaysBeforeYear(YearOf(n)) - DaysBeforeMonth(YearOf(n), MonthOf(n))

\* "%04d" and "%02d"
Digit(v) == Digits[(v % 10) + 1]

Pad4(v) == << Digit(v \div 1000), Digit(v \div 100), Digit(v \div 10), Digit(v) >>

Pad2(v) == << Digit(v \div 10), Digit(v) >>

\* the day (date ordinal) an instant falls on, and midnight of a day
DayOfInstant(t) == t \div TicksPerDay

Midnight(n) == n * TicksPerDay

\* datetime.strftime("%Y-%m-%d")
Strftime(t) ==
    LET n == DayOfInstant(t)
    IN  Pad4(YearOf(n)) \o <<"-">> \o Pad2(MonthOf(n)) \o <<"-">> \o Pad2(DayOf(n))

\* datetime.strptime(s, "%Y-%m-%d") for strings of the shape dddd-dd-dd.
\* DateParses: strptime returns (no ValueError); Strptime: what it returns,
\* the instant of midnight of that day.  A string of another shape, or one
\* that names no calendar day, raises.
ShapeYmd(s) ==
    /\ Len(s) = 10
    /\ s[5] = "-" /\ s[8] = "-"
    /\ \A i \in {1, 2, 3, 4, 6, 7, 9, 10} : IsDigit(s[i])

YmdYear(s) ==
    DigitVal(s[1]) * 1000 + DigitVal(s[2]) * 100 + DigitVal(s[3]) * 10 + DigitVal(s[4])

YmdMonth(s) == DigitVal(s[6]) * 10 + DigitVal(s[7])

YmdDay(s) == DigitVal(s[9]) * 10 + DigitVal(s[10])

DateParses(s) ==
    /\ ShapeYmd(s)
    /\ YmdYear(s) >= 1
    /\ YmdMonth(s) \in 1..12
    /\ YmdDay(s) >= 1
    /\ YmdDay(s) <= DaysInMonth(YmdYear(s), YmdMonth(s))

Strptime(s) == Midnight(ToOrdinal(YmdYear(s), YmdMonth(s), YmdDay(s)))

---------------------------------------------------------------------------
(* Constants of the program.                                               *)

title_terms ==
    { <<"d", "e", "v", "o", "p", "s">>,
      <<"s", "i", "t", "e", " ", "r", "e", "l", "i", "a", "b", "i", "l", "i", "t", "y">>,
      <<"s", "r", "e">>,
      <<"p", "l", "a", "t", "f", "o", "r", "m", " ", "e", "n", "g", "i", "n", "e", "e", "r">>,
      <<"p", "l", "a", "t", "f", "o", "r", "m", " ", "e", "n", "g", "i", "n", "e", "e", "r", "i", "n", "g">>,
      <<"i", "n", "f", "r", "a", "s", "t", "r", "u", "c", "t", "u", "r", "e", " ", "e", "n", "g", "i", "n", "e", "e", "r">>,
      <<"s", "y", "s", "t", "e", "m", "s", " ", "e", "n", "g", "i", "n", "e", "e", "r">>,
      <<"c", "l", "o", "u", "d", " ", "e", "n", "g", "i", "n", "e", "e", "r">>,
      <<"b", "u", "i", "l", "d", " ", "e", "n", "g", "i", "n", "e", "e", "r">>,
      <<"r", "e", "l", "e", "a", "s", "e", " ", "e", "n", "g", "i", "n", "e", "e", "r">> }

desc_terms ==
    { <<"k", "u", "b", "e", "r", "n", "e", "t", "e", "s">>,
      <<"k", "8", "s">>,
      <<"t", "e", "r", "r", "a", "f", "o", "r", "m">>,
      <<"a", "n", "s", "i", "b", "l", "e">>,
      <<"h", "e", "l", "m">>,
      <<"p", "r", "o", "m", "e", "t", "h", "e", "u", "s">>,
      <<"g", "r", "a", "f", "a", "n", "a">>,
      <<"o", "b", "s", "e", "r", "v", "a", "b", "i", "l", "i", "t", "y">>,
      <<"o", "t", "e", "l">>,
      <<"o", "n", "-", "c", "a", "l", "l">>,
      <<"i", "n", "c", "i", "d", "e", "n", "t">>,
      <<"c", "i", "c", "d">>,
      <<"c", "i", "/", "c", "d">>,
      <<"p", "i", "p", "e", "l", "i", "n", "e">>,
      <<"a", "w", "s">>,
      <<"g", "c", "p">>,
      <<"a", "z", "u", "r", "e">>,
      <<"s", "l", "o">>,
      <<"s", "l", "a">>,
      <<"s", "l", "i">> }

boards ==
    << <<"h", "t", "t", "p", "s", ":", "/", "/", "b", "o", "a", "r", "d", "s", "-", "a", "p", "i", ".", "g", "r", "e", "e", "n", "h", "o", "u", "s", "e", ".", "i", "o", "/", "v", "1", "/", "b", "o", "a", "r", "d", "s", "/", "d", "a", "t", "a", "d", "o", "g", "/", "j", "o", "b", "s", "?", "c", "o", "n", "t", "e", "n", "t", "=", "t", "r", "u", "e">>,
       <<"h", "t", "t", "p", "s", ":", "/", "/", "b", "o", "a", "r", "d", "s", "-", "a", "p", "i", ".", "g", "r", "e", "e", "n", "h", "o", "u", "s", "e", ".", "i", "o", "/", "v", "1", "/", "b", "o", "a", "r", "d", "s", "/", "h", "a", "s", "h", "i", "c", "o", "r", "p", "/", "j", "o", "b", "s", "?", "c", "o", "n", "t", "e", "n", "t", "=", "t", "r", "u", "e">>,
       <<"h", "t", "t", "p", "s", ":", "/", "/", "b", "o", "a", "r", "d", "s", "-", "a", "p", "i", ".", "g", "r", "e", "e", "n", "h", "o", "u", "s", "e", ".", "i", "o", "/", "v", "1", "/", "b", "o", "a", "r", "d", "s", "/", "c", "l", "o", "u", "d", "f", "l", "a", "r", "e", "/", "j", "o", "b", "s", "?", "c", "o", "n", "t", "e", "n", "t", "=", "t", "r", "u", "e">> >>

lever_searches ==
    << <<"h", "t", "t", "p", "s", ":", "/", "/", "j", "o", "b", "s", ".", "l", "e", "v", "e", "r", ".", "c", "o", "/", "s", "e", "a", "r", "c", "h", "?", "c", "o", "m", "m", "i", "t", "=", "1", "&", "q", "u", "e", "r", "y", "=", "d", "e", "v", "o", "p", "s">>,
       <<"h", "t", "t", "p", "s", ":", "/", "/", "j", "o", "b", "s", ".", "l", "e", "v", "e", "r", ".", "c", "o", "/", "s", "e", "a", "r", "c", "h", "?", "c", "o", "m", "m", "i", "t", "=", "1", "&", "q", "u", "e", "r", "y", "=", "s", "i", "t", "e", "%", "2", "0", "r", "e", "l", "i", "a", "b", "i", "l", "i", "t", "y">>,
       <<"h", "t", "t", "p", "s", ":", "/", "/", "j", "o", "b", "s", ".", "l", "e", "v", "e", "r", ".", "c", "o", "/", "s", "e", "a", "r", "c", "h", "?", "c", "o", "m", "m", "i", "t", "=", "1", "&", "q", "u", "e", "r", "y", "=", "p", "l", "a", "t", "f", "o", "r", "m", "%", "2", "0", "e", "n", "g", "i", "n", "e", "e", "r">> >>

---------------------------------------------------------------------------
(* Bodies a remote end may send.                                           *)

\* a "jobs" array: one relevant job twice, a job with an empty title, one without absolute_url, an irrelevant one
JobsA ==
    << [title |-> <<"S", "e", "n", "i", "o", "r", " ", "D", "e", "v", "O", "p", "s", " ", "E", "n", "g", "i", "n", "e", "e", "r">>, content |-> <<"M", "a", "n", "a", "g", "e", " ", "K", "u", "b", "e", "r", "n", "e", "t", "e", "s", " ", "c", "l", "u", "s", "t", "e", "r", "s">>, location |-> [name |-> <<"R", "e", "m", "o", "t", "e">>], absolute_url |-> <<"h", "t", "t", "p", "s", ":", "/", "/", "x", "/", "1">>],
       [title |-> <<>>, content |-> <<"d", "e", "v", "o", "p", "s">>, absolute_url |-> <<"h", "t", "t", "p", "s", ":", "/", "/", "x", "/", "2">>],
       [title |-> <<"S", "R", "E">>, content |-> <<"o", "n", "-", "c", "a", "l", "l">>],
       [title |-> <<"A", "c", "c", "o", "u", "n", "t", "a", "n", "t">>, content |-> <<>>, absolute_url |-> <<"h", "t", "t", "p", "s", ":", "/", "/", "x", "/", "3">>],
       [title |-> <<"S", "e", "n", "i", "o", "r", " ", "D", "e", "v", "O", "p", "s", " ", "E", "n", "g", "i", "n", "e", "e", "r">>, content |-> <<"M", "a", "n", "a", "g", "e", " ", "K", "u", "b", "e", "r", "n", "e", "t", "e", "s", " ", "c", "l", "u", "s", "t", "e", "r", "s">>, location |-> [name |-> <<"R", "e", "m", "o", "t", "e">>], absolute_url |-> <<"h", "t", "t", "p", "s", ":", "/", "/", "x", "/", "1">>] >>

\* a "jobs" array: two jobs with one title and two urls, a title holding only a context term, a job relevant by its content
JobsB ==
    << [title |-> <<"S", "R", "E">>, absolute_url |-> <<"h", "t", "t", "p", "s", ":", "/", "/", "x", "/", "9">>, content |-> <<>>],
       [title |-> <<"S", "R", "E">>, absolute_url |-> <<"h", "t", "t", "p", "s", ":", "/", "/", "x", "/", "1">>, location |-> [name |-> <<"B", "e", "r", "l", "i", "n">>]],
       [title |-> <<"K", "u", "b", "e", "r", "n", "e", "t", "e", "s", " ", "A", "d", "m", "i", "n", "i", "s", "t", "r", "a", "t", "o", "r">>, absolute_url |-> <<"h", "t", "t", "p", "s", ":", "/", "/", "x", "/", "4">>],
       [title |-> <<"O", "f", "f", "i", "c", "e", " ", "M", "a", "n", "a", "g", "e", "r">>, content |-> <<"P", "a", "y", "s", " ", "t", "h", "e", " ", "A", "W", "S", " ", "b", "i", "l", "l">>, absolute_url |-> <<"h", "t", "t", "p", "s", ":", "/", "/", "x", "/", "5">>] >>

\* div.posting containers: a full one, one whose apply link has no href, one without a link, one without h5, a title holding only a context term
PostsA ==
    << [h5 |-> <<"S", "e", "n", "i", "o", "r", " ", "D", "e", "v", "O", "p", "s", " ", "E", "n", "g", "i", "n", "e", "e", "r">>, a |-> [class |-> <<"p", "o", "s", "t", "i", "n", "g", "-", "b", "t", "n", "-", "s", "u", "b", "m", "i", "t">>, href |-> <<"h", "t", "t", "p", "s", ":", "/", "/", "x", "/", "1">>], company |-> <<"d", "a", "t", "a", "d", "o", "g">>, location |-> <<"R", "e", "m", "o", "t", "e">>],
       [h5 |-> <<"D", "e", "v", "O", "p", "s", " ", "E", "n", "g", "i", "n", "e", "e", "r">>, a |-> [class |-> <<"p", "o", "s", "t", "i", "n", "g", "-", "b", "t", "n", "-", "s", "u", "b", "m", "i", "t">>], company |-> <<"A", "c", "m", "e">>],
       [h5 |-> <<"S", "R", "E">>, company |-> <<"A", "c", "m", "e">>],
       [a |-> [class |-> <<"p", "o", "s", "t", "i", "n", "g", "-", "b", "t", "n", "-", "s", "u", "b", "m", "i", "t">>, href |-> <<"h", "t", "t", "p", "s", ":", "/", "/", "x", "/", "6">>], company |-> <<"A", "c", "m", "e">>],
       [h5 |-> <<"K", "u", "b", "e", "r", "n", "e", "t", "e", "s", " ", "A", "d", "m", "i", "n", "i", "s", "t", "r", "a", "t", "o", "r">>, a |-> [class |-> <<"p", "o", "s", "t", "i", "n", "g", "-", "b", "t", "n", "-", "s", "u", "b", "m", "i", "t">>, href |-> <<"h", "t", "t", "p", "s", ":", "/", "/", "x", "/", "4">>], company |-> <<"A", "c", "m", "e">>] >>

\* div.posting containers: padded texts, one without div.posting-company, titles differing in case, an irrelevant one
PostsB ==
    << [h5 |-> <<" ", " ", "P", "l", "a", "t", "f", "o", "r", "m", " ", "E", "n", "g", "i", "n", "e", "e", "r", " ">>, a |-> [class |-> <<"p", "o", "s", "t", "i", "n", "g", "-", "b", "t", "n", "-", "s", "u", "b", "m", "i", "t">>, href |-> <<"h", "t", "t", "p", "s", ":", "/", "/", "x", "/", "7">>], company |-> <<" ", "Z", "e", "t", "a", " ">>],
       [h5 |-> <<"S", "R", "E">>, a |-> [class |-> <<"p", "o", "s", "t", "i", "n", "g", "-", "b", "t", "n", "-", "s", "u", "b", "m", "i", "t">>, href |-> <<"h", "t", "t", "p", "s", ":", "/", "/", "x", "/", "8">>]],
       [h5 |-> <<"s", "r", "e">>, a |-> [class |-> <<"p", "o", "s", "t", "i", "n", "g", "-", "b", "t", "n", "-", "s", "u", "b", "m", "i", "t">>, href |-> <<"h", "t", "t", "p", "s", ":", "/", "/", "x", "/", "8">>], company |-> <<"a", "c", "m", "e">>],
       [h5 |-> <<"A", "c", "c", "o", "u", "n", "t", "a", "n", "t">>, a |-> [class |-> <<"p", "o", "s", "t", "i", "n", "g", "-", "b", "t", "n", "-", "s", "u", "b", "m", "i", "t">>, href |-> <<"h", "t", "t", "p", "s", ":", "/", "/", "x", "/", "3">>], company |-> <<"a", "c", "m", "e">>] >>

---------------------------------------------------------------------------
(* The relevance filter.                                                   *)

\* any(k in s for k in terms)
AnyIn(terms, s) == \E k \in terms : IsSubstr(k, s)

\* _devops_match(title, desc)
DevopsMatch(title, desc) ==
    LET t == Lower(title)
        d == Lower(desc)
    IN  AnyIn(title_terms, t) \/ AnyIn(desc_terms, d)

---------------------------------------------------------------------------
(* The job adapters.  A JSON object or a parsed element is a record that   *)
(* has a field exactly for the keys or children present.                   *)

\* dict.get(k, default)
Get(j, k, default) == IF k \in DOMAIN j THEN j[k] ELSE default

\* the record an adapter appends to `out`, stamped with utcnow() = t
Posting(title, company, loc, url, source, t) ==
    [ title     |-> title,
      company   |-> company,
      locations |-> IF loc # <<>> THEN <<loc>> ELSE <<>>,
      url       |-> url,
      source    |-> source,
      date      |-> Strftime(t),
      type      |-> "job_listing" ]

s_boards == <<"/", "b", "o", "a", "r", "d", "s", "/">>

s_Unknown == <<"U", "n", "k", "n", "o", "w", "n">>

\* api_url.split("/boards/")[1].split("/")[0] if "/boards/" in api_url else "Unknown"
CompanyOf(api_url) ==
    IF IsSubstr(s_boards, api_url)
    THEN LET rest == SubSeq(api_url, Find(s_boards, api_url) + Len(s_boards), Len(api_url))
             cut  == Find(<<"/">>, rest)
         IN  IF cut = 0 THEN rest ELSE SubSeq(rest, 1, cut - 1)
    ELSE s_Unknown

\* the loop of _jobs_greenhouse_board over data.get("jobs", [])
RECURSIVE GreenhouseLoop(_, _, _)
GreenhouseLoop(jobs, company, t) ==
    IF jobs = <<>> THEN <<>>
    ELSE LET j     == Head(jobs)
             title == Get(j, "title", <<>>)
             loc   == Get(Get(j, "location", [other |-> <<>>]), "name", <<>>)
             url   == Get(j, "absolute_url", <<>>)
             desc  == Get(j, "content", <<>>)
             rest  == GreenhouseLoop(Tail(jobs), company, t)
         IN  IF title = <<>> \/ url = <<>> THEN rest
             ELSE IF ~DevopsMatch(title, desc) THEN rest
             ELSE <<Posting(title, company, loc, url, "greenhouse", t)>> \o rest

\* the loop of _jobs_lever_search over soup.select("div.posting")
RECURSIVE LeverLoop(_, _)
LeverLoop(posts, t) ==
    IF posts = <<>> THEN <<>>
    ELSE LET post    == Head(posts)
             title   == IF "h5" \in DOMAIN post THEN Strip(post.h5) ELSE <<>>
             hasLink == "a" \in DOMAIN post
             company == IF "company" \in DOMAIN post THEN Strip(post.company) ELSE <<>>
             loc     == IF "location" \in DOMAIN post THEN Strip(post.location) ELSE <<>>
             rest    == LeverLoop(Tail(posts), t)
         IN  IF title = <<>> \/ ~hasLink THEN rest
             ELSE IF ~DevopsMatch(title, <<>>) THEN rest
             ELSE <<Posting(title, company, loc, Get(post.a, "href", <<>>), "lever", t)>> \o rest

\* What a remote end may do with one GET:
\*   [kind |-> "error"]   session.get raises (connection refused, DNS, ...)
\*   [kind |-> "hang"]    no answer, until the session's timeout expires
\*   [kind |-> "http", status, readable, body]
\*                        an answer; readable = FALSE when r.json()/r.text()
\*                        raises on the body (malformed JSON, undecodable)
Raised == [raised |-> TRUE, value |-> <<>>]

Returned(v) == [raised |-> FALSE, value |-> v]

\* the status test left out: every answer is read as a success
StatusNotTested(r) == TRUE

\* the status test of both adapters: "if r.status != 200: return []"
StatusOk(r) == r.status = 200

\* the try-body of _jobs_greenhouse_board
GreenhouseTry(r, api_url, t) ==
    IF r.kind # "http" THEN Raised
    ELSE IF ~StatusOk(r) THEN Returned(<<>>)
    ELSE IF ~r.readable THEN Raised
    ELSE Returned(GreenhouseLoop(Get(r.body, "jobs", <<>>), CompanyOf(api_url), t))

\* the try-body of _jobs_lever_search
LeverTry(r, t) ==
    IF r.kind # "http" THEN Raised
    ELSE IF ~StatusOk(r) THEN Returned(<<>>)
    ELSE IF ~r.readable THEN Raised
    ELSE Returned(LeverLoop(r.body, t))

\* "except Exception: return []"
ExceptReturnEmpty(res) == IF res.raised THEN Returned(<<>>) ELSE res

\* _jobs_greenhouse_board(session, api_url) and _jobs_lever_search(session, url)
JobsGreenhouseBoard(r, api_url, t) == ExceptReturnEmpty(GreenhouseTry(r, api_url, t))

JobsLeverSearch(r, url, t) == ExceptReturnEmpty(LeverTry(r, t))

---------------------------------------------------------------------------
(* The merge steps of jobs(): concatenate, deduplicate, recency, sort.     *)

\* gather(*tasks, return_exceptions=True)
ReturnExceptions == TRUE

\* whether the await of gather raises: only without return_exceptions
GatherRaises(rs) == ~ReturnExceptions /\ \E i \in 1..Len(rs) : rs[i].raised

\* "for r in results: if isinstance(r, list): items.extend(r)"
RECURSIVE Items(_)
Items(rs) ==
    IF rs = <<>> THEN <<>>
    ELSE (IF Head(rs).raised THEN <<>> ELSE Head(rs).value) \o Items(Tail(rs))

\* key = (j.get("company", ""), j.get("title", ""), j.get("url", ""))
Key(j) == <<Get(j, "company", <<>>), Get(j, "title", <<>>), Get(j, "url", <<>>)>>

\* the dedup loop: the first posting of each key, in order
RECURSIVE DedupFrom(_, _)
DedupFrom(items, seen) ==
    IF items = <<>> THEN <<>>
    ELSE IF Key(Head(items)) \in seen THEN DedupFrom(Tail(items), seen)
    ELSE <<Head(items)>> \o DedupFrom(Tail(items), seen \cup {Key(Head(items))})

\* the dedup loop left out: unique = items
DedupNothing(items) == items

\* the dedup loop keeping the last posting of each key (unique[key] = j)
\* in place of the first
DedupLastWins(items) ==
    [n \in 1..Len(DedupFrom(items, {})) |->
        items[CHOOSE p \in 1..Len(items) :
                /\ Key(items[p]) = Key(DedupFrom(items, {})[n])
                /\ \A q \in (p + 1)..Len(items) : Key(items[q]) # Key(items[p])]]

Dedup(items) == DedupFrom(items, {})

\* timedelta(days=60)
MaxAgeDays == 60

\* a window of one tick, as timedelta(hours=...) for timedelta(days=60)
CutoffOneTick(t) == t - 1

\* cutoff = datetime.utcnow() - timedelta(days=60)
Cutoff(t) == t - MaxAgeDays * TicksPerDay

\* d: strptime of the date field, or utcnow() when strptime raises
ResolvedDate(j, t) ==
    LET s == Get(j, "date", <<>>)
    IN  IF DateParses(s) THEN Strptime(s) ELSE t

\* the test of the recency loop left out: fresh = unique
RecencyKeepsAll(unique, t) == unique

\* the recency loop: "if d >= cutoff: fresh.append(j)"
RecencyFilter(unique, t) ==
    SelectSeq(unique, LAMBDA j : ResolvedDate(j, t) >= Cutoff(t))

\* key=lambda x: (x.get("company",""), x.get("title",""))
SortKey(x) == <<Get(x, "company", <<>>), Get(x, "title", <<>>)>>

\* a < b for the key tuples
KeyLess(a, b) ==
    IF a[1] # b[1] THEN StrLess(a[1], b[1]) ELSE StrLess(a[2], b[2])

\* list.sort(key=...) is stable: x goes after every element whose key is
\* not greater than its own
RECURSIVE InsertSorted(_, _)
InsertSorted(x, s) ==
    IF s = <<>> THEN <<x>>
    ELSE IF KeyLess(SortKey(x), SortKey(Head(s))) THEN <<x>> \o s
    ELSE <<Head(s)>> \o InsertSorted(x, Tail(s))

\* The loop of the insertion sort.  The list built so far is bound by
\* d \in {...}, which evaluates it once: TLC hands an operator's parameter
\* over unevaluated and, inside ENABLED, evaluates it anew at each use.
RECURSIVE SortFrom(_, _)
SortFrom(todo, done) ==
    IF todo = <<>> THEN done
    ELSE CHOOSE r \in { SortFrom(Tail(todo), d) :
                          d \in {InsertSorted(Head(todo), done)} } : TRUE

\* the sort left out: fresh stays in first-seen order
SortNothing(s) == s

Sort(s) == CHOOSE r \in { SortFrom(todo, <<>>) : todo \in {s} } : TRUE

\* lines 333-356 of jobs(), with utcnow() = t throughout
MergeSteps(rs, t) == Sort(RecencyFilter(Dedup(Items(rs)), t))

---------------------------------------------------------------------------
(* The run: main() -> asyncio.run(hunter.run(...)).                        *)

NumBoards == Len(boards)

NumTasks == Len(boards) + Len(lever_searches)

Tasks == 1..NumTasks

\* file names under out_dir
GithubFile == "github_results_devops.json"

BlogFile == "blog_results_devops.json"

JobFile == "job_results_devops.json"

CombinedFile == "devops_combined.json"

ReportFile == "devops_report.html"

FileNames == {GithubFile, BlogFile, JobFile, CombinedFile, ReportFile}

\* What each remote end may answer in the model.  Every task has an answer
\* that fails and one that succeeds; the failures cover each kind.
HttpAnswer(status, readable, body) ==
    [kind |-> "http", status |-> status, readable |-> readable, body |-> body]

Answers(i) ==
    CASE i = 1 -> << [kind |-> "error"],
                     HttpAnswer(200, TRUE, [jobs |-> JobsA]) >>
      [] i = 2 -> << HttpAnswer(500, TRUE, [jobs |-> JobsA]),
                     HttpAnswer(200, FALSE, <<>>),
                     HttpAnswer(200, TRUE, [jobs |-> JobsB]) >>
      [] i = 3 -> << [kind |-> "hang"],
                     HttpAnswer(200, TRUE, [meta |-> <<>>]),
                     HttpAnswer(200, TRUE, [jobs |-> JobsA]) >>
      [] i = 4 -> << [kind |-> "error"],
                     HttpAnswer(200, TRUE, PostsA) >>
      [] i = 5 -> << [kind |-> "hang"],
                     HttpAnswer(404, TRUE, PostsA),
                     HttpAnswer(200, TRUE, PostsB) >>
      [] OTHER -> << HttpAnswer(200, FALSE, <<>>),
                     HttpAnswer(200, TRUE, <<>>),
                     HttpAnswer(200, TRUE, PostsB) >>

\* the instants a run of the model can read from the clock
StartInstant == StartDay * TicksPerDay + 1

Instants == StartInstant..(StartInstant + MaxTicks)

\* the value gather() holds for task i, whose GET was answered by r at t
TaskResult(i, r, t) ==
    IF i <= NumBoards
    THEN JobsGreenhouseBoard(r, boards[i], t)
    ELSE JobsLeverSearch(r, lever_searches[i - NumBoards], t)

\* TaskResult for every task, answer and instant of the model
TaskResults ==
    [i \in Tasks |-> [k \in 1..Len(Answers(i)) |->
        [t \in Instants |-> TaskResult(i, Answers(i)[k], t)]]]

\* a session without a total timeout: a GET that hangs never ends
SessionNeverExpires(i) == FALSE

\* ClientSession(timeout=self.http_timeout): total=120 ends a GET that hangs
SessionTimeoutExpires(i) == fetch[i] = "hung"

NoResult == [raised |-> FALSE, value |-> <<>>]

\* the process's memory before run() has set anything
NoFetch == [i \in Tasks |-> "idle"]

NoResp == [i \in Tasks |-> 0]

NoResults == [i \in Tasks |-> NoResult]

Init ==
    /\ pc = "run"
    /\ only \in {"all", "github", "blogs", "jobs"}
    /\ now = StartInstant
    /\ files = [f \in FileNames |-> "absent"]
    /\ content = [f \in FileNames |-> <<>>]
    /\ out = <<>>
    /\ fetch = NoFetch
    /\ resp = NoResp
    /\ results = NoResults
    /\ merge_in = <<>>
    /\ merge_at = 0
    /\ fresh = <<>>

\* the phase after `phase` that run(only) enters
AfterPhase(phase) ==
    CASE phase = "run" ->
            IF only \in {"all", "github"} THEN "github_fetch"
            ELSE IF only = "blogs" THEN "blogs_fetch"
            ELSE "jobs_start"
      [] phase = "github" ->
            IF only = "all" THEN "blogs_fetch" ELSE "combined_open"
      [] phase = "blogs" ->
            IF only = "all" THEN "jobs_start" ELSE "combined_open"
      [] OTHER -> "combined_open"

\* save_json: open(path, "w") creates or truncates the file ...
SaveOpen(f) == files' = [files EXCEPT ![f] = "partial"]

\* ... and json.dump writes data before the file is closed
SaveDump(f, data) ==
    /\ files' = [files EXCEPT ![f] = "complete"]
    /\ content' = [content EXCEPT ![f] = data]

\* run(): the first test of `only`
RunStart ==
    /\ pc = "run"
    /\ pc' = AfterPhase("run")
    /\ UNCHANGED <<only, now, files, content, out, fetch, resp,
                   results, merge_in, merge_at, fresh>>

\* github_repos(): the searches, each absorbed by _get_json, up to save_json
GithubFetch ==
    /\ pc = "github_fetch"
    /\ pc' = "github_open"
    /\ UNCHANGED <<only, now, files, content, out, fetch, resp,
                   results, merge_in, merge_at, fresh>>

GithubOpen ==
    /\ pc = "github_open"
    /\ SaveOpen(GithubFile)
    /\ pc' = "github_dump"
    /\ UNCHANGED <<only, now, content, out, fetch, resp,
                   results, merge_in, merge_at, fresh>>

GithubDump ==
    /\ pc = "github_dump"
    /\ SaveDump(GithubFile, <<"unique">>)
    /\ out' = out @@ ("github_repos" :> <<"unique">>)
    /\ pc' = AfterPhase("github")
    /\ UNCHANGED <<only, now, fetch, resp, results, merge_in,
                   merge_at, fresh>>

\* blog_posts(): the feeds, each in its own try, up to save_json
BlogsFetch ==
    /\ pc = "blogs_fetch"
    /\ pc' = "blogs_open"
    /\ UNCHANGED <<only, now, files, content, out, fetch, resp,
                   results, merge_in, merge_at, fresh>>

BlogsOpen ==
    /\ pc = "blogs_open"
    /\ SaveOpen(BlogFile)
    /\ pc' = "blogs_dump"
    /\ UNCHANGED <<only, now, content, out, fetch, resp,
                   results, merge_in, merge_at, fresh>>

BlogsDump ==
    /\ pc = "blogs_dump"
    /\ SaveDump(BlogFile, <<"unique">>)
    /\ out' = out @@ ("blog_posts" :> <<"unique">>)
    /\ pc' = AfterPhase("blogs")
    /\ UNCHANGED <<only, now, fetch, resp, results, merge_in,
                   merge_at, fresh>>

\* jobs(): the session is opened and the six coroutines handed to gather
JobsStart ==
    /\ pc = "jobs_start"
    /\ fetch' = [i \in Tasks |-> "pending"]
    /\ pc' = "jobs_gather"
    /\ UNCHANGED <<only, now, files, content, out, resp,
                   results, merge_in, merge_at, fresh>>

\* task i's GET is answered (or is left hanging) and the task runs to its end
Respond(i) ==
    /\ pc = "jobs_gather"
    /\ fetch[i] = "pending"
    /\ \E k \in 1..Len(Answers(i)) :
         /\ resp' = [resp EXCEPT ![i] = k]
         /\ IF Answers(i)[k].kind = "hang"
            THEN /\ fetch' = [fetch EXCEPT ![i] = "hung"]
                 /\ UNCHANGED results
            ELSE /\ fetch' = [fetch EXCEPT ![i] = "done"]
                 /\ results' = [results EXCEPT ![i] = TaskResults[i][k][now]]
    /\ UNCHANGED <<pc, only, now, files, content, out,
                   merge_in, merge_at, fresh>>

\* the session timeout ends a hanging GET with TimeoutError inside the task
Timeout(i) ==
    /\ pc = "jobs_gather"
    /\ SessionTimeoutExpires(i)
    /\ fetch' = [fetch EXCEPT ![i] = "done"]
    /\ results' = [results EXCEPT ![i] = TaskResults[i][resp[i]][now]]
    /\ UNCHANGED <<pc, only, now, files, content, out, resp,
                   merge_in, merge_at, fresh>>

\* gather returns once every task has ended; lines 333-356 run without await
JobsMerge ==
    /\ pc = "jobs_gather"
    /\ \A i \in Tasks : fetch[i] = "done"
    /\ IF GatherRaises(results)
       THEN /\ pc' = "crashed"
            /\ UNCHANGED <<merge_in, merge_at, fresh>>
       ELSE /\ merge_in' = results
            /\ merge_at' = now
            /\ fresh' = MergeSteps(results, now)
            /\ pc' = "jobs_open"
    /\ UNCHANGED <<only, now, files, content, out, fetch, resp,
                   results>>

JobsOpen ==
    /\ pc = "jobs_open"
    /\ SaveOpen(JobFile)
    /\ pc' = "jobs_dump"
    /\ UNCHANGED <<only, now, content, out, fetch, resp,
                   results, merge_in, merge_at, fresh>>

JobsDump ==
    /\ pc = "jobs_dump"
    /\ SaveDump(JobFile, fresh)
    /\ out' = out @@ ("job_listings" :> fresh)
    /\ pc' = AfterPhase("jobs")
    /\ UNCHANGED <<only, now, fetch, resp, results, merge_in,
                   merge_at, fresh>>

\* run(): save_json(combined_path, {"generated_at": ts(), **out})
CombinedOpen ==
    /\ pc = "combined_open"
    /\ SaveOpen(CombinedFile)
    /\ pc' = "combined_dump"
    /\ UNCHANGED <<only, now, content, out, fetch, resp,
                   results, merge_in, merge_at, fresh>>

CombinedDump ==
    /\ pc = "combined_dump"
    /\ SaveDump(CombinedFile, [generated_at |-> now, out |-> out])
    /\ \E html_report \in BOOLEAN : pc' = IF html_report THEN "report" ELSE "done"
    /\ UNCHANGED <<only, now, out, fetch, resp, results,
                   merge_in, merge_at, fresh>>

\* run(): generate_html_report(out, report_path)
Report ==
    /\ pc = "report"
    /\ SaveDump(ReportFile, out)
    /\ pc' = "done"
    /\ UNCHANGED <<only, now, out, fetch, resp, results,
                   merge_in, merge_at, fresh>>

\* main(): KeyboardInterrupt while asyncio.run is running; "Interrupted."
\* is printed and the process exits with 130.  What is on disk stays.
Interrupt ==
    /\ pc \notin {"done", "interrupted", "crashed", "merge", "merged"}
    /\ pc' = "interrupted"
    /\ out' = <<>>
    /\ fetch' = NoFetch
    /\ resp' = NoResp
    /\ results' = NoResults
    /\ merge_in' = <<>>
    /\ merge_at' = 0
    /\ fresh' = <<>>
    /\ UNCHANGED <<only, now, files, content>>

\* the wall clock advances
Tick ==
    /\ pc \notin {"done", "interrupted", "crashed", "merge", "merged"}
    /\ now < StartInstant + MaxTicks
    /\ now' = now + 1
    /\ UNCHANGED <<pc, only, files, content, out, fetch, resp,
                   results, merge_in, merge_at, fresh>>

Step ==
    \/ RunStart
    \/ GithubFetch \/ GithubOpen \/ GithubDump
    \/ BlogsFetch \/ BlogsOpen \/ BlogsDump
    \/ JobsStart
    \/ \E i \in Tasks : Respond(i)
    \/ \E i \in Tasks : Timeout(i)
    \/ JobsMerge
    \/ JobsOpen \/ JobsDump
    \/ CombinedOpen \/ CombinedDump
    \/ Report

Next == Step \/ Interrupt \/ Tick

Spec == Init /\ [][Next]_vars

---------------------------------------------------------------------------
(* The merge steps alone, applied to adapter outputs of any content: the   *)
(* records are the adapters' records, with date strings of every kind.     *)

s_acme == <<"a", "c", "m", "e">>

s_Zeta == <<"Z", "e", "t", "a">>

s_SRE == <<"S", "R", "E">>

s_url1 == <<"h", "t", "t", "p", "s", ":", "/", "/", "x", "/", "1">>

s_2001 == <<"2", "0", "0", "1", "-", "0", "1", "-", "0", "1">>

\* date strings: long ago, not a date, empty, no such day, and the days
\* around the cutoff of a run started on StartDay
DateSamples ==
    { s_2001,
      <<"s", "o", "o", "n">>,
      <<>>,
      <<"2", "0", "2", "5", "-", "0", "2", "-", "3", "0">> }
    \cup { Strftime(Midnight(StartDay - k)) : k \in {0, MaxAgeDays - 1, MaxAgeDays, MaxAgeDays + 1} }

SamplePostings ==
    { [ title |-> s_SRE, company |-> c, locations |-> <<>>, url |-> s_url1,
        source |-> "lever", date |-> d, type |-> "job_listing" ] :
      c \in {s_acme, s_Zeta}, d \in DateSamples }

\* how many postings the first adapter output of MergeInit may hold
MaxPostings == 2

SeqsUpTo(S, n) == UNION { [1..m -> S] : m \in 0..n }

MergeInit ==
    /\ pc = "merge"
    /\ only = "jobs"
    /\ now \in Instants
    /\ files = [f \in FileNames |-> "absent"]
    /\ content = [f \in FileNames |-> <<>>]
    /\ out = <<>>
    /\ fetch = [i \in Tasks |-> "done"]
    /\ resp = NoResp
    /\ \E a \in SeqsUpTo(SamplePostings, MaxPostings), b \in SeqsUpTo(SamplePostings, 1) :
         results = [i \in Tasks |->
                      IF i = 1 THEN Returned(a)
                      ELSE IF i = NumTasks THEN Returned(b)
                      ELSE Returned(<<>>)]
    /\ merge_in = <<>>
    /\ merge_at = 0
    /\ fresh = <<>>

\* lines 333-356 of jobs()
MergeApply ==
    /\ pc = "merge"
    /\ merge_in' = results
    /\ merge_at' = now
    /\ fresh' = MergeSteps(results, now)
    /\ pc' = "merged"
    /\ UNCHANGED <<only, now, files, content, out, fetch, resp, results>>

MergeSpec == MergeInit /\ [][MergeApply]_vars

\* the run left alone by the user: no KeyboardInterrupt.  The event loop
\* runs every step that is ready, each GET is answered, fails or hangs, and
\* the session timeout ends the ones that hang.
FairSpec == Init /\ [][Step \/ Tick]_vars /\ WF_vars(Step)

---------------------------------------------------------------------------
(* Properties.                                                             *)

\* the answer task i got, and whether it is a success: a 200 whose body
\* could be read
AnswerOf(i) == Answers(i)[resp[i]]

Succeeded(i) ==
    /\ resp[i] # 0
    /\ AnswerOf(i).kind = "http"
    /\ AnswerOf(i).status = 200
    /\ AnswerOf(i).readable

\* the postings the body of answer k to task i holds, stamped at t
PostingsOfBody(i, k, t) ==
    IF i <= NumBoards
    THEN GreenhouseLoop(Get(Answers(i)[k].body, "jobs", <<>>), CompanyOf(boards[i]), t)
    ELSE LeverLoop(Answers(i)[k].body, t)

BodyPostings ==
    [i \in Tasks |-> [k \in 1..Len(Answers(i)) |->
        [t \in Instants |->
            IF Answers(i)[k].kind = "http" THEN PostingsOfBody(i, k, t) ELSE <<>>]]]

\* jobs() has just merged: `fresh` is the list it goes on to save and return
Merged == pc = "jobs_open"

\* C1: every posting of the list jobs() returns has a non-empty title and
\* a non-empty url (so a container whose apply link has no href yields none).
C1_TitleAndUrlNonEmpty ==
    Merged => \A n \in 1..Len(fresh) : fresh[n].title # <<>> /\ fresh[n].url # <<>>

\* the four output files of a full run
RunFiles == {GithubFile, BlogFile, JobFile, CombinedFile}

\* C2: after an interrupt of a full run, all four output files are written
\* or none of them is.
C2_AllOrNothing ==
    (pc = "interrupted" /\ only = "all") =>
        \/ \A f \in RunFiles : files[f] = "complete"
        \/ \A f \in RunFiles : files[f] = "absent"

\* C3: failed fetches contribute nothing and take nothing away: each task's
\* value is a list, the empty one for a fetch that failed and the postings
\* of its body for one that succeeded; the merged input is these lists one
\* after the other in task order; and jobs() never raises.
C3_FailureIsolation ==
    /\ pc # "crashed"
    /\ Merged =>
         /\ \A i \in Tasks :
              /\ ~merge_in[i].raised
              /\ IF Succeeded(i)
                 THEN \E t \in StartInstant..merge_at :
                         merge_in[i].value = BodyPostings[i][resp[i]][t]
                 ELSE merge_in[i].value = <<>>
         /\ Items(merge_in) =
              merge_in[1].value \o merge_in[2].value \o merge_in[3].value
              \o merge_in[4].value \o merge_in[5].value \o merge_in[6].value

\* C3 witness: merged, with a connection error, a 500, an expired timeout
\* and an unreadable body beside two fetches that brought postings
C3_Witness ==
    /\ Merged
    /\ resp[1] = 1 /\ resp[2] = 1 /\ resp[3] = 1 /\ resp[6] = 1
    /\ Succeeded(4) /\ Succeeded(5)
    /\ merge_in[4].value # <<>> /\ merge_in[5].value # <<>>
    /\ Len(Items(merge_in)) = Len(merge_in[4].value) + Len(merge_in[5].value)

\* the identity key of a posting, as the claim names it
Triple(j) == <<j.company, j.title, j.url>>

\* C5: the keys (company, title, url) of the list jobs() returns are
\* pairwise distinct, and a key that the adapters returned (once or more)
\* is the key of exactly one posting of the list.
C5_DistinctKeys ==
    Merged =>
        /\ \A a, b \in 1..Len(fresh) : a # b => Triple(fresh[a]) # Triple(fresh[b])
        /\ \A n \in 1..Len(Items(merge_in)) :
              Cardinality({a \in 1..Len(fresh) :
                             Triple(fresh[a]) = Triple(Items(merge_in)[n])}) = 1

\* C5 witness: the structured-API task 1 and the HTML task 4 both returned
\* a posting of one key, and jobs() has merged
C5_Witness ==
    /\ Merged
    /\ \E a \in 1..Len(merge_in[1].value), b \in 1..Len(merge_in[4].value) :
         Triple(merge_in[1].value[a]) = Triple(merge_in[4].value[b])

\* (company, title) of a is not greater than that of b, by code point
PairLeq(a, b) ==
    \/ StrLess(a.company, b.company)
    \/ /\ a.company = b.company
       /\ (StrLess(a.title, b.title) \/ a.title = b.title)

\* C9: the list jobs() returns is sorted non-decreasingly by
\* (company, title) in case-sensitive lexical order.
C9_Sorted ==
    Merged => \A n \in 1..(Len(fresh) - 1) : PairLeq(fresh[n], fresh[n + 1])

\* C9 witness: merged, with companies that differ only in case and the
\* first-seen order not the sorted one
C9_Witness ==
    /\ Merged
    /\ Len(fresh) >= 3
    /\ \E a, b \in 1..Len(fresh) : fresh[a].company # fresh[b].company
                                   /\ Lower(fresh[a].company) = Lower(fresh[b].company)
    /\ fresh # RecencyFilter(Dedup(Items(merge_in)), merge_at)

---------------------------------------------------------------------------
(* Liveness of the jobs phase.                                             *)

\* every task's GET has failed or hangs, and gather is still awaited
AllSourcesFail ==
    /\ pc = "jobs_gather"
    /\ \A i \in Tasks : fetch[i] \in {"hung", "done"} /\ ~Succeeded(i)

\* run() has returned; jobs() returned [], saved as the job file, and the
\* combined file is written
CompletedEmpty ==
    /\ pc = "done"
    /\ files[JobFile] = "complete" /\ content[JobFile] = <<>>
    /\ out["job_listings"] = <<>>
    /\ files[CombinedFile] = "complete"

\* C4: a run in which every job source fails or hangs still completes:
\* jobs() returns [], the job file holds the empty array, the combined file
\* is written, and no exception ends the run.
C4_AllFailStillCompletes == AllSourcesFail ~> CompletedEmpty

\* C4 witness: the run is complete and empty after every task failed, two
\* of them by an expired timeout
C4_Witness ==
    /\ CompletedEmpty
    /\ \A i \in Tasks : resp[i] # 0 /\ ~Succeeded(i)
    /\ AnswerOf(3).kind = "hang" /\ AnswerOf(5).kind = "hang"

---------------------------------------------------------------------------
(* The recency filter.                                                     *)

\* the date a posting resolves to when the merge runs at instant t
ResolvedAt(j, t) == IF DateParses(j.date) THEN Strptime(j.date) ELSE t

\* C6: every posting of the merged list resolves to a date not older than
\* max_age_days (60) before the instant of the merge; no posting dated
\* 2001-01-01 is in it.
C6_NotOlderThanMaxAge ==
    pc = "merged" =>
        \A n \in 1..Len(fresh) :
            /\ ResolvedAt(fresh[n], merge_at) >= merge_at - MaxAgeDays * TicksPerDay
            /\ fresh[n].date # s_2001

\* C6 witness: the merge got a posting dated 2001-01-01 and one dated
\* sixty days back, and kept some posting
C6_Witness ==
    /\ pc = "merged"
    /\ \E n \in 1..Len(Items(merge_in)) : Items(merge_in)[n].date = s_2001
    /\ \E n \in 1..Len(Items(merge_in)) :
         Items(merge_in)[n].date = Strftime(Midnight(StartDay - MaxAgeDays))
    /\ fresh # <<>>

---------------------------------------------------------------------------
(* The relevance filter.                                                   *)

\* relevance as specified: a title-sufficient term in the title, or a
\* context term in the title or in the description (case-insensitive)
RelevantAsSpecified(title, desc) ==
    \/ \E k \in title_terms : IsSubstr(k, Lower(title))
    \/ \E k \in desc_terms : IsSubstr(k, Lower(title)) \/ IsSubstr(k, Lower(desc))

\* the (title, description) pairs the adapter of task i hands to
\* _devops_match for the body of its answer
MatchedPairs(i) ==
    LET body == AnswerOf(i).body
    IN  IF i <= NumBoards
        THEN { <<Get(j, "title", <<>>), Get(j, "content", <<>>)>> :
                 j \in { Get(body, "jobs", <<>>)[n] : n \in 1..Len(Get(body, "jobs", <<>>)) } }
        ELSE { <<IF "h5" \in DOMAIN post THEN Strip(post.h5) ELSE <<>>, <<>>>> :
                 post \in { body[n] : n \in 1..Len(body) } }

\* C8: _devops_match(title, description) is true exactly when a
\* title-sufficient term is in the title or a context term is in the title
\* or the description.
C8_MatchAsSpecified ==
    \A i \in Tasks :
        (fetch[i] = "done" /\ Succeeded(i)) =>
            \A p \in MatchedPairs(i) :
                DevopsMatch(p[1], p[2]) <=> RelevantAsSpecified(p[1], p[2])

---------------------------------------------------------------------------
(* Repeating the merge.                                                    *)

\* C10: the merge steps applied again to the same adapter outputs, at the
\* instant of the first application or later in the run, give the list
\* jobs() returned, in the same order; so do the merge steps applied to
\* that list itself.
C10_MergeRepeatable ==
    Merged =>
        \A t \in merge_at..(merge_at + MaxTicks) :
            /\ MergeSteps(merge_in, t) = fresh
            /\ MergeSteps(<<Returned(fresh)>>, t) = fresh

\* C10 witness: merged after midnight passed between a stamp and the merge,
\* with two postings of one (company, title) and two urls in the list
C10_Witness ==
    /\ Merged
    /\ \E n \in 1..Len(fresh) : fresh[n].date # Strftime(merge_at)
    /\ \E a, b \in 1..Len(fresh) :
         /\ a # b
         /\ fresh[a].company = fresh[b].company
         /\ fresh[a].title = fresh[b].title
         /\ fresh[a].url # fresh[b].url

---------------------------------------------------------------------------
(* The gather barrier and the order of the merge.                          *)

\* the outputs of tasks 1..n one after the other, in the order jobs()
\* built the task list: the boards, then the searches
RECURSIVE InvocationOrder(_)
InvocationOrder(n) ==
    IF n = 0 THEN <<>> ELSE InvocationOrder(n - 1) \o merge_in[n].value

\* position p holds the first posting of its key in items
FirstOfKey(items, p) ==
    \A q \in 1..(p - 1) : Triple(items[q]) # Triple(items[p])

\* where the posting j of the merged list stands in items
PlaceOf(items, j) == CHOOSE p \in 1..Len(items) : FirstOfKey(items, p) /\ items[p] = j

=============================================================================
